---- MODULE Spec2Model ----
(***************************************************************************)
(* Model of bot.py: the Telegram image-generation bot.                     *)
(*                                                                         *)
(* The program is a set of asyncio tasks on one event loop: the main task  *)
(* (main), one task per signal delivered (main.shutdown) and one task per  *)
(* inbound text message (generate_image).  A task only loses control at an *)
(* await, so every action below is "the awaited call completes and the     *)
(* task runs up to its next await".  A collaborator call (Telegram,        *)
(* Gemini, aiohttp) either returns or raises; a task on which cancel() was *)
(* called receives CancelledError at the await it is suspended in.         *)
(*                                                                         *)
(* Spec is the whole lifecycle: configuration, startup, signals, shutdown  *)
(* and the requests of Tracked.  HandlerSpec is generate_image alone, from *)
(* the state in which the client polls, with NumRequests requests in       *)
(* flight and cancellation at any await.  loopStopped records the call     *)
(* loop.stop() of line 154; run is the phase of asyncio.run(main()) of     *)
(* line 183.  FairSpec and FairHandlerSpec add weak fairness of the task   *)
(* steps: every awaited call returns or raises in the end.                 *)
(***************************************************************************)
EXTENDS Integers, Sequences, FiniteSets, TLC

\* ---------------------------------------------------------------- bounds
NumRequests == 2
MaxSignals == 2

Requests == 1..NumRequests
Signals == 1..MaxSignals

\* ----------------------------------------------------------- input sets
\* update.message.text: absent (None), the empty string, or a prompt.
Prompts ==
    { [present |-> FALSE, text |-> ""],
      [present |-> TRUE, text |-> ""],
      [present |-> TRUE, text |-> "a red fox in snow"] }

\* What generate_content_async can return: the number of candidates, whether
\* the inline data decodes as base64, whether the bytes open as an image,
\* whether the pixel data loads when the image is converted or saved, and
\* the image's mode.
Responses ==
    { [candidates |-> 0, b64 |-> TRUE, image |-> TRUE, loads |-> TRUE, mode |-> "RGB"],
      [candidates |-> 1, b64 |-> FALSE, image |-> TRUE, loads |-> TRUE, mode |-> "RGB"],
      [candidates |-> 1, b64 |-> TRUE, image |-> FALSE, loads |-> TRUE, mode |-> "RGB"],
      [candidates |-> 1, b64 |-> TRUE, image |-> TRUE, loads |-> FALSE, mode |-> "RGBA"],
      [candidates |-> 1, b64 |-> TRUE, image |-> TRUE, loads |-> TRUE, mode |-> "RGBA"],
      [candidates |-> 1, b64 |-> TRUE, image |-> TRUE, loads |-> TRUE, mode |-> "RGB"] }

\* Stands for "no response" where the call did not return.
NoResponse ==
    [candidates |-> 0, b64 |-> FALSE, image |-> FALSE, loads |-> FALSE, mode |-> "RGB"]

VARIABLES env, oneChat, main, svc, handlers, sd, nsig, req, loopStopped, run

vars == <<env, oneChat, main, svc, handlers, sd, nsig, req, loopStopped, run>>

\* ------------------------------------------------------------- outcomes
\* How an await ends for a task: cancelled when cancel() was called on the
\* task, otherwise the collaborator returns ("ok") or raises ("raise").
Outcomes(t) == IF t.cancelReq THEN {"cancel"} ELSE {"ok", "raise"}

\* How a task ends, from the exception (if any) that leaves its coroutine.
ResultOf(x) ==
    CASE x = "none" -> "returned"
      [] x = "ok" -> "returned"
      [] x = "raise" -> "raised"
      [] x = "cancel" -> "cancelled"

\* ------------------------------------------------------ generate_image
\* A log entry is <<call, event, chat, message id>>.
Issue(r, call, id) ==
    [r EXCEPT !.pc = call, !.log = Append(@, <<call, "issue", r.chat, id>>)]

Ret(r, o, id) ==
    [r EXCEPT !.cancelReq = FALSE, !.log = Append(@, <<r.pc, o, r.chat, id>>)]

Finish(r, x) == [r EXCEPT !.pc = "done", !.result = ResultOf(x)]

\* The absent text alone is taken for "no prompt": `if prompt is None`.
NotPromptNoneOnly(p) == ~p.present

\* `if not prompt` (line 65)
NotPrompt(p) == ~p.present \/ p.text = ""

\* lines 80-90: candidates[0] (IndexError), b64decode, Image.open, then
\* convert and save, which load the pixel data
DecodeOk(resp) == resp.candidates >= 1 /\ resp.b64 /\ resp.image /\ resp.loads

\* lines 84-85
ToRGB(mode) == IF mode # "RGB" THEN "RGB" ELSE mode

\* A bare `except`: the cancellation is caught like any failure.
ExceptCatchesAll(o) == o \in {"raise", "cancel"}

\* `except Exception` (line 94): CancelledError is not an Exception
ExceptCatches(o) == o = "raise"

\* The delete names the chat id instead of the notice's message id.
DeleteIdChat(r) == r.chat

\* The notice's id is kept in one place for all requests and holds the id of
\* the first notice sent.
DeleteIdShared(r) == 1

\* message_id=processing_message.message_id (line 105)
DeleteId(r) == r.msgid

\* No finally clause: the handler ends without deleting the notice.
LeaveWithoutDelete(r, pending) == Finish(r, pending)

\* finally (lines 102-106); `pending` is the exception in flight, if any
EnterFinally(r, pending) ==
    Issue([r EXCEPT !.pending = pending], "delete", DeleteId(r))

\* The except clause logs but sends no failure notice.
EnterExceptSilent(r) == EnterFinally(r, "none")

\* except Exception (lines 94-101)
EnterExcept(r) == Issue(r, "errmsg", 0)

\* an exception raised inside the try block (lines 76-92)
RaiseInTry(r, o) == IF ExceptCatches(o) THEN EnterExcept(r) ELSE EnterFinally(r, o)

\* The photo is sent without the generation call having been made.
EnterTryPhotoFirst(r) == Issue(r, "photo", 0)

\* lines 76-78
EnterTry(r) == Issue(r, "gen", 0)

\* lines 64-74
StartHandler(r, p, c) ==
    LET r1 == [r EXCEPT !.prompt = p, !.chat = c]
    IN  IF NotPrompt(p) THEN Finish(r1, "none") ELSE Issue(r1, "status", 0)

\* line 71 completes
OnStatus(r, o, id) ==
    IF o = "ok" THEN EnterTry([Ret(r, o, id) EXCEPT !.msgid = id])
    ELSE Finish(Ret(r, o, 0), o)

\* line 78 completes, lines 80-92; a failure of lines 80-90 is logged as the
\* event <<"decode", "raise">>
OnGen(r, o, resp) ==
    LET r1 == Ret(r, o, 0)
    IN  IF o = "ok"
        THEN IF DecodeOk(resp)
             THEN Issue([r1 EXCEPT !.img = ToRGB(resp.mode)], "photo", 0)
             ELSE RaiseInTry([r1 EXCEPT !.log = Append(@, <<"decode", "raise", r.chat, 0>>)],
                             "raise")
        ELSE RaiseInTry(r1, o)

\* The failure notice is sent after the try block whatever its outcome.
OnPhotoThenError(r, o) == RaiseInTry(Ret(r, o, 0), IF o = "ok" THEN "raise" ELSE o)

\* line 92 completes
OnPhoto(r, o) ==
    IF o = "ok" THEN EnterFinally(Ret(r, o, 0), "none") ELSE RaiseInTry(Ret(r, o, 0), o)

\* The handler ends with the failure notice; the status notice stays.
OnErrmsgNoCleanup(r, o) == Finish(Ret(r, o, 0), o)

\* line 101 completes
OnErrmsg(r, o) ==
    EnterFinally(Ret(r, o, 0), IF o = "ok" THEN "none" ELSE o)

\* line 103 completes
OnDelete(r, o) ==
    Finish(Ret(r, o, 0), IF o = "ok" THEN r.pending ELSE o)

\* ------------------------------------------------------------------ main
\* The messaging client is brought up before the web listener.
MainOrderBotFirst == <<"initialize", "app_start", "start_polling", "site_start", "sleep">>

\* The awaits of main's try block, in order (lines 163-171).
MainOrder == <<"site_start", "initialize", "app_start", "start_polling", "sleep">>

IndexIn(seq, x) == CHOOSE k \in DOMAIN seq : seq[k] = x

\* What a collaborator call that returned has done to the services.
Effect(s, call) ==
    CASE call = "setup" -> [s EXCEPT !.web = "setup"]
      [] call = "site_start" -> [s EXCEPT !.web = "listening"]
      [] call = "initialize" -> [s EXCEPT !.app = "initialized"]
      [] call = "app_start" -> [s EXCEPT !.app = "running"]
      [] call = "start_polling" -> [s EXCEPT !.polling = TRUE]
      [] call = "cleanup" -> [s EXCEPT !.web = "cleaned"]
      [] call = "updater_stop" -> [s EXCEPT !.polling = FALSE]
      [] call = "app_stop" -> [s EXCEPT !.app = "stopped"]
      [] OTHER -> s

\* A call being made: the stop calls are counted.
Called(s, call) ==
    CASE call = "cleanup" -> [s EXCEPT !.cleanup = @ + 1]
      [] call = "updater_stop" -> [s EXCEPT !.ustop = @ + 1]
      [] call = "app_stop" -> [s EXCEPT !.astop = @ + 1]
      [] OTHER -> s

\* The event loop runs tasks: under run_until_complete(main) until loop.stop()
\* is called, and again while asyncio.run cancels and awaits what is left.
LoopRuns == (run = "running" /\ ~loopStopped) \/ run = "teardown"

MainAlive == main.pc \notin {"config", "entry", "exited", "done"}
ReqAlive(i) == req[i].pc \notin {"idle", "done"}
SdAlive(j) == sd[j].pc \notin {"none", "done"}

\* The key is never looked at.
KeyAssumed(e) == TRUE

\* `if not GEMINI_API_KEY` (line 28)
KeyConfigured(e) == e.gemini

\* The token is never looked at.
TokenAssumed(e) == TRUE

\* `if not TELEGRAM_TOKEN` (line 122)
TokenSet(e) == e.token

\* Module level, lines 27-34: without the key the process exits.
Configure ==
    /\ main.pc = "config"
    /\ main' = [main EXCEPT !.pc = IF KeyConfigured(env) THEN "entry" ELSE "exited"]
    /\ UNCHANGED <<env, oneChat, svc, handlers, sd, nsig, req, loopStopped, run>>

\* asyncio.run(main()), lines 122-136: up to `await runner.setup()`.
MainEnter ==
    /\ main.pc = "entry"
    /\ main' = IF TokenSet(env)
               THEN [main EXCEPT !.pc = "setup"]
               ELSE [main EXCEPT !.pc = "done", !.result = "returned", !.errorLogged = TRUE]
    /\ UNCHANGED <<env, oneChat, svc, handlers, sd, nsig, req, loopStopped, run>>

\* `await runner.setup()` completes (line 136); lines 137-163 follow: the
\* signal handlers are installed and site.start() is awaited.
MainSetup ==
    /\ main.pc = "setup"
    /\ LoopRuns
    /\ \E o \in Outcomes(main) :
         IF o = "ok"
         THEN /\ svc' = Effect(svc, "setup")
              /\ handlers' = TRUE
              /\ main' = [main EXCEPT !.pc = MainOrder[1]]
         ELSE /\ main' = [main EXCEPT !.pc = "done", !.result = ResultOf(o),
                                      !.cancelReq = FALSE]
              /\ UNCHANGED <<svc, handlers>>
    /\ UNCHANGED <<env, oneChat, sd, nsig, req, loopStopped, run>>

\* The exception is logged and the keep-alive loop goes on.
OnMainRaiseStay(m) == [m EXCEPT !.critical = TRUE, !.pc = "sleep"]

\* except Exception: logger.critical, then finally, and main returns
\* (lines 175-178)
OnMainRaise(m) == [m EXCEPT !.pc = "done", !.result = "returned", !.critical = TRUE]

\* An await of the try block completes (lines 161-178).
MainStep ==
    /\ main.pc \in {MainOrder[k] : k \in DOMAIN MainOrder}
    /\ LoopRuns
    /\ \E o \in Outcomes(main) :
         LET k == IndexIn(MainOrder, main.pc)
         IN  CASE o = "ok" ->
                   /\ svc' = Effect(svc, main.pc)
                   /\ main' = [main EXCEPT
                                 !.pc = IF k < Len(MainOrder) THEN MainOrder[k + 1] ELSE @]
               [] o = "raise" ->
                   /\ main' = OnMainRaise(main)
                   /\ svc' = svc
               [] o = "cancel" ->
                   \* CancelledError passes both except clauses
                   /\ main' = [main EXCEPT !.pc = "done", !.result = "cancelled",
                                           !.cancelReq = FALSE]
                   /\ svc' = svc
    /\ UNCHANGED <<env, oneChat, handlers, sd, nsig, req, loopStopped, run>>

\* -------------------------------------------------------- main.shutdown
\* The loop's tasks are cancelled and awaited before the services are stopped.
ShutdownOrderGatherFirst == <<"gather", "cleanup", "updater_stop", "app_stop">>

\* The stages of shutdown (lines 146-153); loop.stop() follows the last.
ShutdownOrder == <<"cleanup", "updater_stop", "app_stop", "gather">>

SdLog(s, stage, ev) == [s EXCEPT !.log = Append(@, <<stage, ev>>)]

\* t for t in asyncio.all_tasks() if t is not asyncio.current_task() (line 151)
OtherTasks(j) ==
    (IF MainAlive THEN {<<"main", 0>>} ELSE {})
      \cup {<<"req", i>> : i \in {i \in Requests : ReqAlive(i)}}
      \cup {<<"sd", k>> : k \in {k \in Signals : k # j /\ SdAlive(k)}}

TaskDone(t) ==
    CASE t[1] = "main" -> main.pc = "done"
      [] t[1] = "req" -> req[t[2]].pc = "done"
      [] t[1] = "sd" -> sd[t[2]].pc = "done"

\* Shutdown task j, having got through stage k - 1, goes on to stage k.
EnterStage(j, s, k) ==
    IF k > Len(ShutdownOrder)
    THEN \* loop.stop() (line 154)
         /\ loopStopped' = TRUE
         /\ sd' = [sd EXCEPT ![j] = [SdLog(s, "loop_stop", "issue") EXCEPT
                                       !.pc = "done", !.result = "returned"]]
         /\ UNCHANGED <<main, req>>
    ELSE IF ShutdownOrder[k] = "gather"
    THEN \* lines 151-153: cancel every other task, then await them all
         LET ts == OtherTasks(j)
         IN  /\ main' = IF <<"main", 0>> \in ts THEN [main EXCEPT !.cancelReq = TRUE]
                        ELSE main
             /\ req' = [i \in Requests |->
                          IF <<"req", i>> \in ts THEN [req[i] EXCEPT !.cancelReq = TRUE]
                          ELSE req[i]]
             /\ sd' = [k2 \in Signals |->
                         IF k2 = j
                         THEN [SdLog(s, "gather", "issue") EXCEPT !.pc = "gather", !.tasks = ts]
                         ELSE IF <<"sd", k2>> \in ts THEN [sd[k2] EXCEPT !.cancelReq = TRUE]
                         ELSE sd[k2]]
             /\ UNCHANGED loopStopped
    ELSE /\ sd' = [sd EXCEPT ![j] = [SdLog(s, ShutdownOrder[k], "issue") EXCEPT
                                       !.pc = ShutdownOrder[k]]]
         /\ UNCHANGED <<main, req, loopStopped>>

\* A signal arrives: the handler of line 158 creates a shutdown task.
Signal ==
    /\ handlers
    /\ run = "running" /\ ~loopStopped
    /\ nsig < MaxSignals
    /\ nsig' = nsig + 1
    /\ sd' = [sd EXCEPT ![nsig + 1].pc = "created"]
    /\ UNCHANGED <<env, oneChat, main, svc, handlers, req, loopStopped, run>>

\* The shutdown task runs for the first time (lines 144-146).
SdStart(j) ==
    /\ sd[j].pc = "created"
    /\ LoopRuns
    /\ IF sd[j].cancelReq
       THEN /\ sd' = [sd EXCEPT ![j] = [@ EXCEPT !.pc = "done", !.result = "cancelled",
                                                 !.cancelReq = FALSE]]
            /\ UNCHANGED <<main, req, loopStopped, svc>>
       ELSE /\ EnterStage(j, sd[j], 1)
            /\ svc' = Called(svc, ShutdownOrder[1])
    /\ UNCHANGED <<env, oneChat, handlers, nsig, run>>

\* One of shutdown's stop calls completes (lines 146-149).
SdStep(j) ==
    /\ sd[j].pc \in {"cleanup", "updater_stop", "app_stop"}
    /\ LoopRuns
    /\ \E o \in Outcomes(sd[j]) :
         LET k == IndexIn(ShutdownOrder, sd[j].pc)
             s == SdLog(sd[j], sd[j].pc, o)
         IN  IF o = "ok"
             THEN /\ EnterStage(j, s, k + 1)
                  /\ svc' = IF k < Len(ShutdownOrder)
                            THEN Called(Effect(svc, sd[j].pc), ShutdownOrder[k + 1])
                            ELSE Effect(svc, sd[j].pc)
             ELSE /\ sd' = [sd EXCEPT ![j] = [s EXCEPT !.pc = "done", !.result = ResultOf(o),
                                                       !.cancelReq = FALSE]]
                  /\ UNCHANGED <<main, req, loopStopped, svc>>
    /\ UNCHANGED <<env, oneChat, handlers, nsig, run>>

\* `await asyncio.gather(*tasks, return_exceptions=True)` completes (line 153):
\* every task of the list is done, whatever its result; or the shutdown task
\* was itself cancelled while it waited.
SdGather(j) ==
    /\ sd[j].pc = "gather"
    /\ LoopRuns
    /\ IF sd[j].cancelReq
       THEN /\ sd' = [sd EXCEPT ![j] = [SdLog(@, "gather", "cancel") EXCEPT
                                          !.pc = "done", !.result = "cancelled",
                                          !.cancelReq = FALSE]]
            /\ UNCHANGED <<main, req, loopStopped, svc>>
       ELSE /\ \A t \in sd[j].tasks : TaskDone(t)
            /\ EnterStage(j, SdLog(sd[j], "gather", "ok"),
                          IndexIn(ShutdownOrder, "gather") + 1)
            /\ svc' = IF IndexIn(ShutdownOrder, "gather") < Len(ShutdownOrder)
                      THEN Called(svc, ShutdownOrder[IndexIn(ShutdownOrder, "gather") + 1])
                      ELSE svc
    /\ UNCHANGED <<env, oneChat, handlers, nsig, run>>

\* ------------------------------------------------------ prompt requests
\* update.effective_chat.id of request i's message (line 68): the messages
\* come all from one conversation or each from a conversation of its own.
ChatOf(i) == IF oneChat THEN 1 ELSE i

\* A text message arrives while the client polls: the MessageHandler of
\* line 130 runs generate_image up to its first await (lines 64-74).
ReqArrive(i) ==
    /\ req[i].pc = "idle"
    /\ i > 1 => req[i - 1].pc # "idle"
    /\ svc.polling /\ svc.app = "running"
    /\ run = "running" /\ ~loopStopped
    /\ \E p \in Prompts : req' = [req EXCEPT ![i] = StartHandler(@, p, ChatOf(i))]
    /\ UNCHANGED <<env, oneChat, main, svc, handlers, sd, nsig, loopStopped, run>>

\* The message_id of the Message that send_message returns to request i
\* (line 71): the platform numbers messages, no two alike.
MessageId(i) == i

\* The task resumes from the await it is suspended in, with outcome o.
Resume(r, o, id, resp) ==
    CASE r.pc = "status" -> OnStatus(r, o, id)
      [] r.pc = "gen" -> OnGen(r, o, resp)
      [] r.pc = "photo" -> OnPhoto(r, o)
      [] r.pc = "errmsg" -> OnErrmsg(r, o)
      [] r.pc = "delete" -> OnDelete(r, o)

\* An await of generate_image completes.
ReqStep(i) ==
    /\ ReqAlive(i)
    /\ LoopRuns
    /\ \E o \in Outcomes(req[i]) :
         \E resp \in (IF o = "ok" /\ req[i].pc = "gen" THEN Responses ELSE {NoResponse}) :
            req' = [req EXCEPT ![i] = Resume(@, o, MessageId(i), resp)]
    /\ UNCHANGED <<env, oneChat, main, svc, handlers, sd, nsig, loopStopped, run>>

\* task.cancel() on a request's task (line 152), seen from the request alone:
\* the task resumes with CancelledError at the await it is suspended in.
CancelTask(i) ==
    /\ ReqAlive(i)
    /\ req' = [req EXCEPT ![i] = Resume([@ EXCEPT !.cancelReq = TRUE], "cancel", 0, NoResponse)]
    /\ UNCHANGED <<env, oneChat, main, svc, handlers, sd, nsig, loopStopped, run>>

\* ---------------------------------------------------------- asyncio.run
\* asyncio.run(main()) (line 183): once the main task has ended, run cancels
\* every task that is left and runs the loop until they have ended.
RunTeardown ==
    /\ run = "running"
    /\ main.pc = "done"
    /\ run' = "teardown"
    /\ req' = [i \in Requests |->
                 IF ReqAlive(i) THEN [req[i] EXCEPT !.cancelReq = TRUE] ELSE req[i]]
    /\ sd' = [j \in Signals |->
                IF SdAlive(j) THEN [sd[j] EXCEPT !.cancelReq = TRUE] ELSE sd[j]]
    /\ UNCHANGED <<env, oneChat, main, svc, handlers, nsig, loopStopped>>

\* The tasks that were left have ended: the loop is closed, asyncio.run
\* returns or raises (lines 183-188) and the process ends.
RunExit ==
    /\ run = "teardown"
    /\ \A i \in Requests : ~ReqAlive(i)
    /\ \A j \in Signals : ~SdAlive(j)
    /\ run' = "exited"
    /\ UNCHANGED <<env, oneChat, main, svc, handlers, sd, nsig, req, loopStopped>>

\* ------------------------------------------------------- specification
NoPrompt == [present |-> FALSE, text |-> ""]

Init ==
    /\ env \in [gemini : BOOLEAN, token : BOOLEAN]
    /\ oneChat = TRUE
    /\ main = [pc |-> "config", cancelReq |-> FALSE, result |-> "none",
               critical |-> FALSE, errorLogged |-> FALSE]
    /\ svc = [web |-> "new", app |-> "new", polling |-> FALSE,
              cleanup |-> 0, ustop |-> 0, astop |-> 0]
    /\ handlers = FALSE
    /\ sd = [j \in Signals |->
               [pc |-> "none", cancelReq |-> FALSE, tasks |-> {}, log |-> <<>>,
                result |-> "none"]]
    /\ nsig = 0
    /\ req = [i \in Requests |->
                [pc |-> "idle", prompt |-> NoPrompt, chat |-> 0, msgid |-> 0,
                 img |-> "none", cancelReq |-> FALSE, pending |-> "none",
                 log |-> <<>>, result |-> "none"]]
    /\ loopStopped = FALSE
    /\ run = "running"

\* The lifecycle specification follows the requests of Tracked from startup
\* through shutdown.
Tracked == {1}

Next ==
    \/ Configure
    \/ MainEnter
    \/ MainSetup
    \/ MainStep
    \/ Signal
    \/ \E j \in Signals : SdStart(j)
    \/ \E j \in Signals : SdStep(j)
    \/ \E j \in Signals : SdGather(j)
    \/ \E i \in Tracked : ReqArrive(i)
    \/ \E i \in Tracked : ReqStep(i)
    \/ RunTeardown
    \/ RunExit

Spec == Init /\ [][Next]_vars

\* The loop runs every task that is ready and every awaited call returns or
\* raises in the end; signals and messages may or may not arrive.
Fairness ==
    /\ WF_vars(Configure) /\ WF_vars(MainEnter) /\ WF_vars(MainSetup)
    /\ WF_vars(RunTeardown) /\ WF_vars(RunExit)
    /\ \A j \in Signals : WF_vars(SdStart(j)) /\ WF_vars(SdStep(j)) /\ WF_vars(SdGather(j))
    /\ \A i \in Tracked : WF_vars(ReqStep(i))

FairSpec == Spec /\ Fairness

\* The prompt handler on its own: the state main reaches once start_polling
\* has returned (line 167), every request slot in use, and a request's task
\* cancelled at any of its awaits.
InitHandler ==
    /\ env = [gemini |-> TRUE, token |-> TRUE]
    /\ oneChat \in BOOLEAN
    /\ main = [pc |-> "sleep", cancelReq |-> FALSE, result |-> "none",
               critical |-> FALSE, errorLogged |-> FALSE]
    /\ svc = [web |-> "listening", app |-> "running", polling |-> TRUE,
              cleanup |-> 0, ustop |-> 0, astop |-> 0]
    /\ handlers = TRUE
    /\ sd = [j \in Signals |->
               [pc |-> "none", cancelReq |-> FALSE, tasks |-> {}, log |-> <<>>,
                result |-> "none"]]
    /\ nsig = 0
    /\ req = [i \in Requests |->
                [pc |-> "idle", prompt |-> NoPrompt, chat |-> 0, msgid |-> 0,
                 img |-> "none", cancelReq |-> FALSE, pending |-> "none",
                 log |-> <<>>, result |-> "none"]]
    /\ loopStopped = FALSE
    /\ run = "running"

NextHandler ==
    \/ \E i \in Requests : ReqArrive(i)
    \/ \E i \in Requests : ReqStep(i)
    \/ \E i \in Requests : CancelTask(i)

HandlerSpec == InitHandler /\ [][NextHandler]_vars

\* Every awaited call of a request returns or raises in the end.
FairHandlerSpec == HandlerSpec /\ \A i \in Requests : WF_vars(ReqStep(i))

\* =============================================================== claims
Count(log, call, ev) ==
    Cardinality({k \in DOMAIN log : log[k][1] = call /\ log[k][2] = ev})

Issued(r, call) == Count(r.log, call, "issue")

\* No call of the request raised or was cancelled.
AllSucceeded(r) == \A k \in DOMAIN r.log : r.log[k][2] \in {"issue", "ok"}

HasText(r) == r.prompt.present /\ r.prompt.text # ""

StatusReturned(r) == Count(r.log, "status", "ok") = 1

\* C1: a handler run on a non-empty text sends the status notice exactly once
\* and, once that send has returned a message, ends having issued exactly one
\* delete, which names the message id that send returned - whatever the
\* generation call, the decoding and the photo send did.
C1_OneNoticeOneDelete ==
    \A i \in Requests :
      LET r == req[i]
      IN  /\ Issued(r, "status") <= 1
          /\ Issued(r, "delete") <= 1
          /\ (r.pc # "idle" /\ HasText(r)) => Issued(r, "status") = 1
          /\ (r.pc = "done" /\ StatusReturned(r)) =>
               /\ Issued(r, "delete") = 1
               /\ \A k, m \in DOMAIN r.log :
                    (r.log[k][1] = "delete" /\ r.log[k][2] = "issue"
                       /\ r.log[m][1] = "status" /\ r.log[m][2] = "ok")
                    => r.log[k][4] = r.log[m][4]

\* A request whose photo send raised has ended with its notice deleted.
C1_Witness ==
    \E i \in Requests :
      /\ req[i].pc = "done"
      /\ Count(req[i].log, "photo", "raise") = 1
      /\ Issued(req[i], "delete") = 1
      /\ Count(req[i].log, "status", "ok") = 1

\* C2: when the generation call raises, the handler ends having issued exactly
\* one failure-notice send, no photo send, and the delete of the notice.
C2_GenerationFailure ==
    \A i \in Requests :
      LET r == req[i]
      IN  Count(r.log, "gen", "raise") > 0 =>
            /\ Issued(r, "photo") = 0
            /\ Issued(r, "errmsg") = 1
            /\ r.pc = "done" => Issued(r, "delete") = 1 /\ Count(r.log, "errmsg", "ok") <= 1

C2_Witness ==
    \E i \in Requests :
      /\ req[i].pc = "done"
      /\ Count(req[i].log, "gen", "raise") = 1
      /\ Count(req[i].log, "errmsg", "ok") = 1
      /\ Count(req[i].log, "delete", "ok") = 1

\* C3: no error of a collaborator call leaves generate_image: the handler
\* never ends with an exception raised.
C3_NoErrorPropagates == \A i \in Requests : req[i].result # "raised"

\* C4: however many signals arrive, runner.cleanup(), updater.stop() and
\* application.stop() are each called at most once.
C4_ShutdownOnce == svc.cleanup <= 1 /\ svc.ustop <= 1 /\ svc.astop <= 1

\* C5: with the text empty or absent the handler returns having made no call
\* at all.
C5_EmptyPromptNoEffect ==
    \A i \in Requests :
      LET r == req[i]
      IN  (r.pc # "idle" /\ (~r.prompt.present \/ r.prompt.text = "")) =>
            r.pc = "done" /\ r.result = "returned" /\ r.log = <<>> /\ r.msgid = 0

C5_Witness ==
    /\ \E i \in Requests : req[i].pc = "done" /\ ~req[i].prompt.present
    /\ \E i \in Requests :
         req[i].pc = "done" /\ req[i].prompt.present /\ req[i].prompt.text = ""

IsIssue(e) == e[2] = "issue"

\* The call of entry k was issued, and has completed, before entry m.
CompletedBefore(log, call, m) ==
    \E k \in 1..(m - 1) : log[k][1] = call /\ ~IsIssue(log[k])

\* C6: within a request every call is issued only once the call before it has
\* completed; the status notice is sent before the generation call, the
\* generation call completes before the photo or the failure notice is sent,
\* that send completes before the delete, and the delete is the last call.
C6_StrictOrder ==
    \A i \in Requests :
      LET log == req[i].log
      IN  \A m \in DOMAIN log :
            IsIssue(log[m]) =>
              /\ m > 1 => ~IsIssue(log[m - 1])
              /\ log[m][1] = "status" => m = 1
              /\ log[m][1] = "gen" => log[m - 1] = <<"status", "ok", log[m][3], log[m - 1][4]>>
              /\ log[m][1] \in {"photo", "errmsg"} => CompletedBefore(log, "gen", m)
              /\ log[m][1] = "delete" =>
                   /\ CompletedBefore(log, "gen", m)
                   /\ \A k \in 1..(m - 1) :
                        IsIssue(log[k]) => CompletedBefore(log, log[k][1], m)
                   /\ \A k \in (m + 1)..Len(log) : ~IsIssue(log[k])

\* A request that sent the photo, then the failure notice, then the delete.
C6_Witness ==
    \E i \in Requests :
      /\ req[i].pc = "done"
      /\ Issued(req[i], "photo") = 1
      /\ Issued(req[i], "errmsg") = 1
      /\ Issued(req[i], "delete") = 1

SdFull ==
    << <<"cleanup", "issue">>, <<"cleanup", "ok">>,
       <<"updater_stop", "issue">>, <<"updater_stop", "ok">>,
       <<"app_stop", "issue">>, <<"app_stop", "ok">>,
       <<"gather", "issue">>, <<"gather", "ok">>,
       <<"loop_stop", "issue">> >>

\* C7: a shutdown goes through runner.cleanup(), updater.stop(),
\* application.stop(), the cancelling and awaiting of the other tasks and
\* loop.stop() in this order, each begun only when the one before has
\* returned; loop.stop() has been called only by a shutdown that went through
\* them all and whose awaited tasks have all ended.
C7_ShutdownOrder ==
    /\ \A j \in Signals :
         LET log == sd[j].log
         IN  /\ Len(log) <= Len(SdFull)
             /\ \A k \in DOMAIN log :
                  \/ log[k] = SdFull[k]
                  \/ /\ k = Len(log)
                     /\ log[k][1] = SdFull[k][1]
                     /\ SdFull[k][2] = "ok"
                     /\ log[k][2] \in {"raise", "cancel"}
    /\ loopStopped =>
         \E j \in Signals : sd[j].log = SdFull /\ \A t \in sd[j].tasks : TaskDone(t)

\* The loop was stopped by a shutdown that cancelled and awaited the main
\* task and a request whose delete then raised.
C7_Witness ==
    /\ loopStopped
    /\ \E j \in Signals :
         /\ sd[j].log = SdFull
         /\ <<"main", 0>> \in sd[j].tasks
         /\ \E i \in Requests : <<"req", i>> \in sd[j].tasks /\ req[i].result = "raised"

\* C8: once a signal has been received and every shutdown task it started has
\* ended, the event loop has been stopped.
C8_ShutdownReachesStop ==
    (nsig > 0 /\ \A j \in 1..nsig : sd[j].pc = "done") => loopStopped

\* The only calls of a request that went well, in order.
SuccessLog(c, id) ==
    << <<"status", "issue", c, 0>>, <<"status", "ok", c, id>>,
       <<"gen", "issue", c, 0>>, <<"gen", "ok", c, 0>>,
       <<"photo", "issue", c, 0>>, <<"photo", "ok", c, 0>>,
       <<"delete", "issue", c, id>>, <<"delete", "ok", c, 0>> >>

\* C9: a request on a non-empty prompt in which the generation call returned
\* a decodable image and every messaging call succeeded has sent one status
\* notice, one photo, one delete of that notice and no failure notice.
C9_SuccessScenario ==
    \A i \in Requests :
      LET r == req[i]
      IN  (r.pc = "done" /\ HasText(r) /\ AllSucceeded(r)) =>
            /\ r.log = SuccessLog(r.chat, r.msgid)
            /\ r.result = "returned"
            /\ r.img = "RGB"

C9_Witness ==
    \E i \in Requests :
      /\ req[i].pc = "done"
      /\ req[i].prompt.text = "a red fox in snow"
      /\ AllSucceeded(req[i])
      /\ Count(req[i].log, "photo", "ok") = 1

Photos(r) == Count(r.log, "photo", "ok")
Notices(r) == Count(r.log, "errmsg", "ok")

FailedInTry(r) ==
    \E k \in DOMAIN r.log : r.log[k][1] \in {"gen", "decode", "photo"} /\ r.log[k][2] = "raise"

\* C10: a request delivers one photo, or one failure notice, or nothing, never
\* both and never two of either: nothing on an empty text, the photo when
\* every step succeeded, the failure notice when the generation, the decoding
\* or the photo send failed and the notice itself was delivered.
C10_OneOutcome ==
    \A i \in Requests :
      LET r == req[i]
      IN  /\ Photos(r) + Notices(r) <= 1
          /\ (r.pc = "done" /\ ~HasText(r)) => Photos(r) = 0 /\ Notices(r) = 0
          /\ (r.pc = "done" /\ HasText(r) /\ AllSucceeded(r)) =>
               Photos(r) = 1 /\ Notices(r) = 0
          /\ (r.pc = "done" /\ FailedInTry(r) /\ Count(r.log, "errmsg", "raise") = 0
                /\ Count(r.log, "errmsg", "cancel") = 0) =>
               Photos(r) = 0 /\ Notices(r) = 1

\* One request delivered a photo, another a failure notice after a payload
\* that did not decode.
C10_Witness ==
    /\ \E i \in Requests : req[i].pc = "done" /\ Photos(req[i]) = 1
    /\ \E i \in Requests :
         req[i].pc = "done" /\ Notices(req[i]) = 1 /\ Count(req[i].log, "decode", "raise") = 1

\* No service has been started: the runner is not set up, the listener not
\* bound, the signal handlers not installed, the client neither initialized
\* nor polling.
NothingStarted ==
    /\ svc.web = "new" /\ svc.app = "new" /\ ~svc.polling
    /\ ~handlers /\ nsig = 0
    /\ \A i \in Requests : req[i].pc = "idle"

\* C11: with the generation-API key missing the process exits at the
\* module-level configuration, with the messaging token missing main logs an
\* error and returns; in both cases nothing has been started, ever.
C11_MissingCredential ==
    /\ ~env.gemini => main.pc \in {"config", "exited"} /\ NothingStarted
    /\ (env.gemini /\ ~env.token) =>
         /\ main.pc \in {"config", "entry", "done"}
         /\ main.pc = "done" => main.errorLogged /\ main.result = "returned"
         /\ NothingStarted

\* main has returned for want of the token, the key being there.
C11_Witness ==
    env.gemini /\ ~env.token /\ main.pc = "done" /\ main.errorLogged /\ NothingStarted

\* The listener has been started: site.start() has returned.
ListenerStarted == svc.web \in {"listening", "cleaned"}

\* C12: the client's initialize/start/start_polling sequence begins only
\* once site.start() has returned, so whenever the client polls the listener
\* has been started; and as long as no signal has arrived, listener and
\* polling client are up together.
C12_ListenerBeforeClient ==
    /\ main.pc \in {"initialize", "app_start", "start_polling", "sleep"} => ListenerStarted
    /\ svc.app # "new" => ListenerStarted
    /\ svc.polling => ListenerStarted
    /\ (svc.polling /\ nsig = 0) => svc.web = "listening" /\ svc.app = "running"

\* The client polls and serves a request while the listener is up.
C12_Witness ==
    /\ svc.polling /\ svc.web = "listening" /\ svc.app = "running" /\ nsig = 0
    /\ \E i \in Requests : req[i].pc = "gen"

NoTaskLeft ==
    /\ main.pc = "done"
    /\ \A i \in Requests : ~ReqAlive(i)
    /\ \A j \in Signals : ~SdAlive(j)

\* C13: an exception raised by an await of main's try block (site.start,
\* initialize, start, start_polling, the sleep) is logged as critical and main
\* returns; main has returned from the try block only with that log entry; and
\* once it is logged the process goes on to exit, with no task left running.
C13_ExceptionExits ==
    /\ [](main.critical => main.pc = "done" /\ main.result = "returned")
    /\ []((handlers /\ main.pc = "done" /\ main.result = "returned") => main.critical)
    /\ [](run = "exited" => NoTaskLeft)
    /\ (main.critical ~> run = "exited")

\* initialize raised after the listener was started: the process has exited.
C13_Witness ==
    /\ main.critical /\ run = "exited"
    /\ svc.web = "listening" /\ svc.app = "new"

\* The calls of request i name the conversation the request came from, and its
\* delete names the notice the platform returned to this very request.
OwnCallsOnly(i) ==
    LET r == req[i]
    IN  /\ r.pc # "idle" => r.chat = ChatOf(i)
        /\ \A k \in DOMAIN r.log : r.log[k][3] = ChatOf(i)
        /\ \A k \in DOMAIN r.log :
             (r.log[k][1] = "delete" /\ r.log[k][2] = "issue") =>
               /\ r.log[k][4] = MessageId(i)
               /\ \A m \in Requests \ {i} : r.log[k][4] # req[m].msgid

\* A step of one request leaves every other request as it was.
OthersUntouched ==
    \A i \in Requests : req'[i] # req[i] => \A k \in Requests \ {i} : req'[k] = req[k]

\* C14: however the steps of the requests interleave, every call of a request
\* names its own conversation, its delete names the notice it created and no
\* notice of another request, and a step of one request (a failure included)
\* changes nothing of any other request.
C14_NoSharedState ==
    /\ [](\A i \in Requests : OwnCallsOnly(i))
    /\ [][OthersUntouched]_vars

\* Two requests of one conversation in flight together: the second has failed
\* in generation and waits for its delete, the first sends its photo.
C14_Witness ==
    /\ oneChat
    /\ req[1].pc = "photo"
    /\ req[2].pc = "delete" /\ Count(req[2].log, "gen", "raise") = 1
    /\ Count(req[2].log, "errmsg", "ok") = 1

\* Request i leaves its generation call only by that call's own completion or
\* cancellation: no step of the handler ends the wait.
LeavesGenByCompletion(i) ==
    (req[i].pc = "gen" /\ req'[i] # req[i]) =>
       /\ Len(req'[i].log) > Len(req[i].log)
       /\ req'[i].log[Len(req[i].log) + 1][1] = "gen"
       /\ req'[i].log[Len(req[i].log) + 1][2] \in {"ok", "raise", "cancel"}

CancelledInTry(r) ==
    Count(r.log, "gen", "cancel") + Count(r.log, "photo", "cancel") > 0

\* Request i was among the tasks a shutdown task cancelled (lines 151-152).
CancelledByShutdown(i) == \E j \in Signals : <<"req", i>> \in sd[j].tasks

\* C16: a request that shutdown cancelled at its generation call or photo send
\* has sent no failure notice and has issued the delete of its notice exactly
\* once, with application.stop() of the shutdown already returned; it ends
\* cancelled or with the delete's own error, never as returned.
C16_CancelledCleanup ==
    \A i \in Requests :
      (CancelledInTry(req[i]) /\ CancelledByShutdown(i)) =>
         /\ Issued(req[i], "errmsg") = 0
         /\ Issued(req[i], "delete") = 1
         /\ req[i].pc \in {"delete", "done"}
         /\ req[i].pc = "done" => req[i].result \in {"cancelled", "raised"}
         /\ svc.app = "stopped" /\ svc.astop >= 1

\* Shutdown cancelled the request in its generation call; the delete was
\* issued to the stopped client and returned.
C16_Witness ==
    /\ CancelledByShutdown(1)
    /\ Count(req[1].log, "gen", "cancel") = 1
    /\ Count(req[1].log, "delete", "ok") = 1
    /\ req[1].pc = "done" /\ req[1].result = "cancelled"
    /\ svc.app = "stopped"

====
